---- MODULE Spec2Model ----
(***************************************************************************)
(* AURA moderation bot: the moderation ledger (MOD_LOGS), the operational  *)
(* metrics (SERVER_METRICS, CHANNEL_ACTIVITY, ACTIVE_CHATTERS), the two    *)
(* JSON store files, the discord event handlers of bot_logic.py running as *)
(* coroutines of one event loop, and the Flask request handlers of         *)
(* admin_dashboard.py running in another thread.                           *)
(*                                                                         *)
(* Texts (python str) are sequences of one-character strings.  Instants    *)
(* are whole days; a date is [y, m, d].  A python dict that keeps its      *)
(* insertion order is a sequence of [k, v] pairs with distinct keys.       *)
(***************************************************************************)
EXTENDS Integers, Sequences, FiniteSets, TLC

VARIABLES
    MOD_LOGS,          \* bot_logic.MOD_LOGS: [logs |-> sequence of log entries]
    SERVER_METRICS,    \* bot_logic.SERVER_METRICS
    CHANNEL_ACTIVITY,  \* bot_logic.CHANNEL_ACTIVITY: dict channel id -> count
    ACTIVE_CHATTERS,   \* bot_logic.ACTIVE_CHATTERS: set of user id texts
    files,             \* content of MOD_LOGS_FILE and METRICS_FILE
    openW,             \* per file, the tasks that hold it open for writing
    tasks,             \* the coroutines of the bot's event loop
    running,           \* the task that holds the loop thread inside a save_json
    saverRunning,      \* the metric_saver_loop tasks started and not ended
    req,               \* the request being served by the Flask thread
    now,               \* datetime.now(), in days
    today,             \* datetime.now().date()
    nEvents,           \* events dispatched so far
    nCkpt,             \* iterations of metric_saver_loop so far
    nFaults,           \* store writes that have failed so far
    limits,            \* the run's bounds on events, checkpoints and failed writes
    appended,          \* history: the entries passed to MOD_LOGS insert, in call order
    since,             \* history: per channel, the qualifying messages since the last
                       \* periodic checkpoint
    delta,             \* history: per channel, the qualifying messages between the last
                       \* two periodic checkpoints
    ckptDone,          \* history: messages_by_channel as the last periodic checkpoint
                       \* that completed wrote it
    boot,              \* history: the restarts so far, and the files the last startup
                       \* could not decode
    lastWrite          \* history: per file, the last save_json started, the failed ones

vars == <<MOD_LOGS, SERVER_METRICS, CHANNEL_ACTIVITY, ACTIVE_CHATTERS, files, openW,
          tasks, running, saverRunning, req, now, today, nEvents, nCkpt, nFaults, limits,
          appended, since, delta, ckptDone, boot, lastWrite>>

memVars == <<MOD_LOGS, SERVER_METRICS, CHANNEL_ACTIVITY, ACTIVE_CHATTERS>>
fileVars == <<files, openW, lastWrite>>
botVars == <<tasks, running, saverRunning>>
countVars == <<nEvents, nCkpt, nFaults, limits>>
histVars == <<appended, since, delta, ckptDone, boot>>
clockVars == <<now, today>>

(***************************************************************************)
(* Bounds of the model.                                                    *)
(***************************************************************************)
MaxEvents == 2        \* events dispatched to the bot in one run
MaxCheckpoints == 2   \* iterations of metric_saver_loop in one run
MaxFaults == 1        \* store writes that fail in one run
MaxSeq == 3           \* length of the join/leave sequences drawn for the KPI checks
MaxLedger == 2        \* length of the ledgers drawn for the search checks
MaxCount == 2         \* largest monthly counter drawn for the rollover checks

(***************************************************************************)
(* Texts.                                                                  *)
(***************************************************************************)
Digits == <<"0", "1", "2", "3", "4", "5", "6", "7", "8", "9">>

RECURSIVE StrOfInt(_)
\* str(n) of a non-negative int: its decimal digits
StrOfInt(n) ==
    IF n < 10 THEN <<Digits[n + 1]>>
    ELSE StrOfInt(n \div 10) \o <<Digits[(n % 10) + 1]>>

DigitValue(c) == (CHOOSE i \in 1..10 : Digits[i] = c) - 1

RECURSIVE IntOfStr(_)
\* int(s) of a text of decimal digits
IntOfStr(s) ==
    IF Len(s) = 1 THEN DigitValue(s[1])
    ELSE 10 * IntOfStr(SubSeq(s, 1, Len(s) - 1)) + DigitValue(s[Len(s)])

ToLower == [A |-> "a", B |-> "b", C |-> "c", E |-> "e", F |-> "f", G |-> "g",
            I |-> "i", K |-> "k", L |-> "l", M |-> "m", N |-> "n", P |-> "p",
            S |-> "s", T |-> "t", U |-> "u"]

\* str.lower()
Lower(s) == [i \in DOMAIN s |-> IF s[i] \in DOMAIN ToLower THEN ToLower[s[i]] ELSE s[i]]

\* python's `sub in s`
Contains(sub, s) ==
    \E i \in 0..(Len(s) - Len(sub)) : SubSeq(s, i + 1, i + Len(sub)) = sub

\* str.strip() for texts whose only whitespace is the blank
RECURSIVE Strip(_)
Strip(s) ==
    IF s = <<>> THEN s
    ELSE IF s[1] = " " THEN Strip(Tail(s))
    ELSE IF s[Len(s)] = " " THEN Strip(SubSeq(s, 1, Len(s) - 1))
    ELSE s

(***************************************************************************)
(* Insertion-ordered dicts.                                                *)
(***************************************************************************)
DictKeys(d) == {d[i].k : i \in DOMAIN d}
DictHas(d, key) == key \in DictKeys(d)
DictGet(d, key, default) ==
    IF DictHas(d, key) THEN d[CHOOSE i \in DOMAIN d : d[i].k = key].v ELSE default
\* d[key] = val: an existing key keeps its place, a new key goes last
DictSet(d, key, val) ==
    IF DictHas(d, key)
    THEN [i \in DOMAIN d |-> IF d[i].k = key THEN [k |-> key, v |-> val] ELSE d[i]]
    ELSE Append(d, [k |-> key, v |-> val])

\* instants and dates as the code stores them
IsoFormat(t) == StrOfInt(t)
FromIsoFormat(s) == IntOfStr(s)
DateStr(d) == <<d.y, d.m, d.d>>
DateFromIso(s) == [y |-> s[1], m |-> s[2], d |-> s[3]]

(***************************************************************************)
(* Program constants.                                                      *)
(***************************************************************************)
MOD_LOGS_FILE == "permanent_record.json"
METRICS_FILE == "operational_metrics.json"
FileNames == {MOD_LOGS_FILE, METRICS_FILE}

Window30 == 30        \* timedelta(days=30)
Window7 == 7          \* timedelta(days=7)
TopN == 5             \* [:5]
RecentN == 10         \* [:10]

Users == {1, 12}              \* member ids
Moderators == {1}             \* members with guild_permissions.manage_messages
Channels == {1, 2}            \* channel ids
Reasons == {<<"s", "p", "a", "m">>}
GuildSize == 3                \* len(ctx.guild.members)
PunitiveActions == {"MUTE", "BAN", "KICK"}
Actions == PunitiveActions \cup {"FLAG"}

\* the characters of an action kind, for text matching
ActionText(a) ==
    CASE a = "BAN" -> <<"B", "A", "N">>
      [] a = "KICK" -> <<"K", "I", "C", "K">>
      [] a = "MUTE" -> <<"M", "U", "T", "E">>
      [] a = "FLAG" -> <<"F", "L", "A", "G">>

(***************************************************************************)
(* Initial data: load_json's defaults.                                     *)
(***************************************************************************)
DefaultLogs == [logs |-> <<>>]

NewSummary(tdy) ==
    [total_mutes |-> 0, total_bans |-> 0, total_kicks |-> 0,
     last_reset |-> DateStr(tdy), member_count_at_action |-> <<>>]

DefaultMetrics(tdy) ==
    [members_joined |-> <<>>, members_left |-> <<>>, messages_by_channel |-> <<>>,
     monthly_summary |-> NewSummary(tdy)]

\* a file holds <<data>>, or <<>> while it is truncated and not yet (or only
\* partly) rewritten: no strict prefix of the JSON text of an object decodes
Complete(data) == <<data>>
Truncated == <<>>

\* CHANNEL_ACTIVITY as load_initial_data restores it: CHANNEL_ACTIVITY[int(k)] = v
RestoreActivity(mbc) == [i \in DOMAIN mbc |-> [k |-> IntOfStr(mbc[i].k), v |-> mbc[i].v]]

(***************************************************************************)
(* admin_dashboard.py: load_data, calculate_kpis, the search.              *)
(***************************************************************************)
\* load_data(filepath, default_data): the decoded file, or the default when
\* json.load raises
LoadData(content, default) ==
    IF content = Truncated
    THEN [fallback |-> TRUE, data |-> default]
    ELSE [fallback |-> FALSE, data |-> content[1]]

\* the reader's default for the metrics file is {}
EmptyDict == <<>>
\* metrics.get(field, []) and metrics.get(field, {})
MetricsGet(m, field) == IF field \in DOMAIN m THEN m[field] ELSE <<>>

CountAfter(stamps, cutoff) ==
    Cardinality({i \in DOMAIN stamps : FromIsoFormat(stamps[i]) > cutoff})

\* f"{num / den * 100:.1f}" in tenths: the nearest tenth, a tie going to the even one
\* (for den < 16 the float quotient has no tie and rounds as the exact quotient does)
RoundTenths(num, den) ==
    LET n == 1000 * num
        q == n \div den
        r == n % den
    IN  IF 2 * r > den THEN q + 1
        ELSE IF 2 * r < den THEN q
        ELSE q + (q % 2)

ChurnRateUnguarded(left, joined) ==
    IF joined = 0 THEN [raised |-> TRUE, tenths |-> 0]
    ELSE [raised |-> FALSE, tenths |-> RoundTenths(left, joined)]

\* churn_rate = (left_7d / joined_7d * 100) if joined_7d > 0 else 0.0
ChurnRate(left, joined) ==
    IF joined > 0 THEN [raised |-> FALSE, tenths |-> RoundTenths(left, joined)]
    ELSE [raised |-> FALSE, tenths |-> 0]

\* f"{churn_rate:.1f}%"
FormatPercent(tenths) == StrOfInt(tenths \div 10) \o <<".">> \o StrOfInt(tenths % 10) \o <<"%">>

\* the name shown for a channel key while the bot does not resolve it
ChannelName(key) == <<"I", "D", ":">> \o key

RemoveAt(s, i) == SubSeq(s, 1, i - 1) \o SubSeq(s, i + 1, Len(s))

RECURSIVE SortedByCountDesc(_)
\* sorted(channel_list, key=lambda x: x['count'], reverse=True): a stable sort,
\* equal counts keep the order of channel_list
SortedByCountDesc(list) ==
    IF list = <<>> THEN <<>>
    ELSE LET m == CHOOSE i \in DOMAIN list :
                    /\ \A j \in DOMAIN list : list[j].count <= list[i].count
                    /\ \A j \in 1..(i - 1) : list[j].count < list[i].count
         IN  <<list[m]>> \o SortedByCountDesc(RemoveAt(list, m))

Take(s, n) == SubSeq(s, 1, IF Len(s) < n THEN Len(s) ELSE n)

NetChange7d(joined_30d, left_30d, joined_7d, left_7d) == joined_7d - left_7d

\* net_change = joined_30d - left_30d
NetChange(joined_30d, left_30d, joined_7d, left_7d) == joined_30d - left_30d

CalculateKpis(metrics, t) ==
    LET members_joined == MetricsGet(metrics, "members_joined")
        members_left == MetricsGet(metrics, "members_left")
        messages_by_channel == MetricsGet(metrics, "messages_by_channel")
        joined_30d == CountAfter(members_joined, t - Window30)
        left_30d == CountAfter(members_left, t - Window30)
        joined_7d == CountAfter(members_joined, t - Window7)
        left_7d == CountAfter(members_left, t - Window7)
        churn == ChurnRate(left_7d, joined_7d)
        channel_list == [i \in DOMAIN messages_by_channel |->
                           [name |-> ChannelName(messages_by_channel[i].k),
                            count |-> messages_by_channel[i].v]]
    IN  [raised |-> churn.raised,
         net_change |-> NetChange(joined_30d, left_30d, joined_7d, left_7d),
         joined_30d |-> joined_30d,
         left_30d |-> left_30d,
         churn_rate_7d |-> FormatPercent(churn.tenths),
         top_channels |-> Take(SortedByCountDesc(channel_list), TopN)]

LogGet(log, field, default) == IF field \in DOMAIN log THEN log[field] ELSE default

MatchesAnyField(q, log) ==
    \/ Contains(Lower(q), Lower(log.target_id))
    \/ Contains(Lower(q), Lower(log.reason))
    \/ Contains(Lower(q), Lower(ActionText(log.action)))

\* search_query.lower() in log.get('target_username', '').lower()
\*   or search_query == str(log.get('target_id'))
MatchesSearch(q, log) ==
    \/ Contains(Lower(q), Lower(LogGet(log, "target_username", <<>>)))
    \/ q = LogGet(log, "target_id", <<>>)

SearchLogs(logs, q) == SelectSeq(logs, LAMBDA log : MatchesSearch(q, log))

(***************************************************************************)
(* bot_logic.py: update_monthly_metric.                                    *)
(***************************************************************************)
\* f'total_{action.lower()}s'
MetricKey(action) ==
    CASE action = "MUTE" -> "total_mutes"
      [] action = "BAN" -> "total_bans"
      [] action = "KICK" -> "total_kicks"
      [] action = "FLAG" -> "total_flags"

CountsMonthlyAlways(action) == TRUE

\* if action in ['MUTE', 'BAN', 'KICK']: update_monthly_metric(...)
CountsMonthly(action) == action \in {"MUTE", "BAN", "KICK"}

\* today.month != last_reset_date.month
NeedsReset(tdy, last_reset_date) == tdy.m # last_reset_date.m

UpdateMonthlyMetricSkips(summary, key, tdy) == summary

\* the monthly_summary update_monthly_metric(key) leaves
UpdateMonthlyMetric(summary, key, tdy) ==
    LET last_reset_date == DateFromIso(summary.last_reset)
        s1 == IF NeedsReset(tdy, last_reset_date) THEN NewSummary(tdy) ELSE summary
    IN  IF key \in DOMAIN s1 THEN [s1 EXCEPT ![key] = @ + 1] ELSE s1

(***************************************************************************)
(* The request-responder thread: admin_dashboard.dashboard, metrics_api.   *)
(***************************************************************************)
NoKpis ==
    [raised |-> FALSE, net_change |-> 0, joined_30d |-> 0, left_30d |-> 0,
     churn_rate_7d |-> <<>>, top_channels |-> <<>>]

NoResponse ==
    [status |-> "none", kpis |-> NoKpis, searched |-> FALSE, search_results |-> <<>>,
     active_chatters_count |-> 0, recent_logs |-> <<>>, json |-> EmptyDict]

IdleReq ==
    [pc |-> "idle", route |-> "none", method |-> "none", form |-> <<>>,
     mod_logs |-> [fallback |-> FALSE, data |-> DefaultLogs],
     server_metrics |-> [fallback |-> FALSE, data |-> EmptyDict],
     response |-> NoResponse]

readerFrame == <<memVars, openW, lastWrite, botVars, countVars, histVars, clockVars>>

GetActiveChattersNone == {}

\* get_active_chatters(): return ACTIVE_CHATTERS
GetActiveChatters == ACTIVE_CHATTERS

OpenedForWriting(content) == Truncated

\* with open(filepath, 'r') as f: the file is left as it is
OpenedForReading(content) == content

\* dashboard(), step 1: mod_logs = load_data(MOD_LOGS_FILE, {'logs': []})
DashboardLoadLogs(method, form) ==
    /\ req.pc \in {"idle", "done"}
    /\ req' = [IdleReq EXCEPT !.pc = "load_metrics", !.route = "dashboard",
                              !.method = method, !.form = form,
                              !.mod_logs = LoadData(files[MOD_LOGS_FILE], DefaultLogs)]
    /\ files' = [files EXCEPT ![MOD_LOGS_FILE] = OpenedForReading(@)]
    /\ UNCHANGED readerFrame

\* dashboard(), step 1: server_metrics = load_data(METRICS_FILE, {})
DashboardLoadMetrics ==
    /\ req.pc = "load_metrics"
    /\ req' = [req EXCEPT !.pc = "render",
                          !.server_metrics = LoadData(files[METRICS_FILE], EmptyDict)]
    /\ files' = [files EXCEPT ![METRICS_FILE] = OpenedForReading(@)]
    /\ UNCHANGED readerFrame

\* the table rows built from a list of records: the loop body tests
\* isinstance(moderator_display, discord.User), and admin_dashboard.py never imports
\* discord, so the first row raises NameError
RowsRaise(rows) == rows # <<>>

\* dashboard(), steps 3 to 6 and the rows: the search, the KPIs, the live count, the
\* recent logs; an exception ends the request with status 500
DashboardRender ==
    /\ req.pc = "render"
    /\ LET logs == req.mod_logs.data.logs
           search_query == Strip(req.form)
           searched == req.method = "POST" /\ search_query # <<>>
           search_results == IF searched THEN SearchLogs(logs, search_query) ELSE <<>>
           kpis == CalculateKpis(req.server_metrics.data, now)
           recent_logs == Take(logs, RecentN)
       IN  req' = [req EXCEPT
                     !.pc = "done",
                     !.response =
                        IF kpis.raised \/ RowsRaise(recent_logs) \/ RowsRaise(search_results)
                        THEN [NoResponse EXCEPT !.status = "500"]
                        ELSE [status |-> "200",
                              kpis |-> kpis,
                              searched |-> searched,
                              search_results |-> search_results,
                              active_chatters_count |-> Cardinality(GetActiveChatters),
                              recent_logs |-> recent_logs,
                              json |-> EmptyDict]]
    /\ UNCHANGED <<files, readerFrame>>

\* metrics_api(): jsonify(load_data(METRICS_FILE, {}))
MetricsApi ==
    /\ req.pc \in {"idle", "done"}
    /\ LET metrics == LoadData(files[METRICS_FILE], EmptyDict)
       IN  req' = [IdleReq EXCEPT !.pc = "done", !.route = "metrics_api", !.method = "GET",
                                  !.server_metrics = metrics,
                                  !.response = [NoResponse EXCEPT !.status = "200",
                                                                  !.json = metrics.data]]
    /\ files' = [files EXCEPT ![METRICS_FILE] = OpenedForReading(@)]
    /\ UNCHANGED readerFrame

\* home(): the status page, rendered from bot.is_ready() alone
Home ==
    /\ req.pc \in {"idle", "done"}
    /\ req' = [IdleReq EXCEPT !.pc = "done", !.route = "home", !.method = "GET",
                              !.response = [NoResponse EXCEPT !.status = "200"]]
    /\ UNCHANGED <<files, readerFrame>>

(***************************************************************************)
(* Initial states: the state load_initial_data leaves from the two files.  *)
(***************************************************************************)
\* a run without the bot: no event, no checkpoint, no failed write, no restart
NoLimits ==
    [events |-> 0, checkpoints |-> 0, faults |-> 0, crashes |-> 0, readies |-> 1,
     commands |-> {"none"}]
NoWrite == [st |-> "none", data |-> <<>>, failed |-> 0]
Slots == {"h1", "h2"}
TaskIds == Slots \cup {"saver"}
\* the "Sign-in History" field of the whois embed: none built, "Clean record", or
\* "(N Incidents)" over the first five entries
NoReport == [made |-> FALSE, clean |-> TRUE, incidents |-> 0, history |-> <<>>]
HistoryShown == 5     \* clean_logs[:5]

WhoisReportCountsFlags(logs, member) ==
    LET target_id == StrOfInt(member)
        user_logs == SelectSeq(logs, LAMBDA log : log.target_id = target_id)
    IN  IF user_logs # <<>>
        THEN [made |-> TRUE, clean |-> FALSE, incidents |-> Len(user_logs),
              history |-> Take(user_logs, HistoryShown)]
        ELSE [NoReport EXCEPT !.made = TRUE]

\* whois_command: user_logs, clean_logs and the history field of the embed
WhoisReport(logs, member) ==
    LET target_id == StrOfInt(member)
        user_logs == SelectSeq(logs, LAMBDA log : log.target_id = target_id)
        clean_logs == SelectSeq(user_logs, LAMBDA log : log.action \in {"MUTE", "KICK", "BAN"})
    IN  IF user_logs # <<>> /\ clean_logs # <<>>
        THEN [made |-> TRUE, clean |-> FALSE, incidents |-> Len(clean_logs),
              history |-> Take(clean_logs, HistoryShown)]
        ELSE [NoReport EXCEPT !.made = TRUE]

\* logged: update_log_and_metrics has been called by this handler; effect: how the
\* platform call of the command ended; report: what whois found
\* vibe_command's locals and what it has done: the requests posted, delay, the status
\* of the last response, the sleeps made and the replies sent after the notice
NoVibe == [requests |-> 0, delay |-> 0, status |-> "none", waits |-> <<>>, replies |-> <<>>]
IdleTask == [kind |-> "idle", pc |-> "idle", subject |-> 0, actor |-> 0, reason |-> <<>>,
             banned |-> FALSE, command |-> "none", w |-> "closed", logged |-> FALSE,
             effect |-> "none", report |-> NoReport, vibe |-> NoVibe]

RECURSIVE Reverse(_)
Reverse(s) == IF s = <<>> THEN <<>> ELSE Append(Reverse(Tail(s)), Head(s))

InitFrom(logs, metrics, nw, tdy, lim) ==
    /\ MOD_LOGS = logs
    /\ SERVER_METRICS = metrics
    /\ CHANNEL_ACTIVITY = RestoreActivity(metrics.messages_by_channel)
    /\ ACTIVE_CHATTERS = {}
    /\ files = [f \in FileNames |->
                  IF f = MOD_LOGS_FILE THEN Complete(logs) ELSE Complete(metrics)]
    /\ openW = [f \in FileNames |-> {}]
    /\ tasks = [t \in TaskIds |-> IdleTask]
    /\ running = "none"
    /\ saverRunning = 0
    /\ req = IdleReq
    /\ now = nw
    /\ today = tdy
    /\ nEvents = 0
    /\ nCkpt = 0
    /\ nFaults = 0
    /\ limits = lim
    /\ appended = Reverse(logs.logs)
    /\ since = [c \in Channels |-> 0]
    /\ delta = [c \in Channels |-> 0]
    /\ ckptDone = metrics.messages_by_channel
    /\ boot = [n |-> 0, corrupt |-> {}, authors |-> {}, loaded |-> Len(logs.logs),
               readies |-> 0]
    /\ lastWrite = [f \in FileNames |-> NoWrite]

(***************************************************************************)
(* SpecKpi: the dashboard's KPIs over metrics files left by earlier runs.  *)
(***************************************************************************)
\* the instant of the request: late enough for both windows to open after day 0
KpiNow == Window30 + Window7 + 3
KpiToday == [y |-> 2025, m |-> 3, d |-> 15]
\* 10 is 30 days old (outside both windows), 33 is 7 days old (inside the 30-day
\* window only), 34 and 40 are inside both
KpiInstants == {10, 33, 34, 40}

\* the non-decreasing sequences over S of length at most n
SortedSeqs(S, n) ==
    {s \in UNION {[1..k -> S] : k \in 0..n} : \A i \in 1..(Len(s) - 1) : s[i] <= s[i + 1]}

StampSeqs == {[i \in DOMAIN s |-> IsoFormat(s[i])] : s \in SortedSeqs(KpiInstants, MaxSeq)}

\* the dicts over at most two channels, in either order of first message
KpiDicts ==
    {<<>>}
    \cup {<<[k |-> StrOfInt(c), v |-> n]>> : c \in Channels, n \in 1..MaxCount}
    \cup {d \in {<<[k |-> StrOfInt(c1), v |-> n1], [k |-> StrOfInt(c2), v |-> n2]>> :
                   c1 \in Channels, c2 \in Channels, n1 \in 1..MaxCount, n2 \in 1..MaxCount} :
            d[1].k # d[2].k}

InitKpi ==
    \E joined \in StampSeqs, left \in StampSeqs, mbc \in KpiDicts :
        InitFrom(DefaultLogs,
                 [DefaultMetrics(KpiToday) EXCEPT !.members_joined = joined,
                                                  !.members_left = left,
                                                  !.messages_by_channel = mbc],
                 KpiNow, KpiToday, NoLimits)

NextKpi ==
    \/ DashboardLoadLogs("GET", <<>>)
    \/ DashboardLoadMetrics
    \/ DashboardRender
    \/ MetricsApi

SpecKpi == InitKpi /\ [][NextKpi]_vars

(***************************************************************************)
(* The KPI claims, stated over the metrics the request loaded.             *)
(***************************************************************************)
Rendered == req.pc = "done" /\ req.route = "dashboard"
LoadedMetrics == req.server_metrics.data
\* the events of a sequence that are less than `days` old
Inside(field, days) ==
    Cardinality({i \in DOMAIN MetricsGet(LoadedMetrics, field) :
                    now - FromIsoFormat(MetricsGet(LoadedMetrics, field)[i]) < days})
J30 == Inside("members_joined", Window30)
L30 == Inside("members_left", Window30)
J7 == Inside("members_joined", Window7)
L7 == Inside("members_left", Window7)
PercentText(tenths) ==
    StrOfInt(tenths \div 10) \o <<".">> \o StrOfInt(tenths % 10) \o <<"%">>
Abs(x) == IF x < 0 THEN -x ELSE x

\* C5: with no join inside the 7-day window the dashboard is rendered without an
\* error and shows a churn rate of 0.0%, whatever the number of leaves in the window
C5_ChurnZeroWithoutJoins ==
    (Rendered /\ J7 = 0) =>
        /\ req.response.status = "200"
        /\ req.response.kpis.churn_rate_7d = <<"0", ".", "0", "%">>

C5_Witness ==
    /\ Rendered
    /\ J7 = 0
    /\ L7 > 0
    /\ req.response.kpis.churn_rate_7d = <<"0", ".", "0", "%">>

\* C6 (amended): the KPIs hold one net change, that of the 30-day window: the joins
\* strictly inside it minus the leaves strictly inside it; the 7-day window gives the
\* churn rate, leaves/joins*100 to the nearest tenth, when it holds a join; 3 joins
\* and 1 leave, all inside 7 days, give a net change of 2 and a churn rate of 33.3%
C6_NetChangeAndChurn ==
    Rendered =>
        /\ req.response.status = "200"
        /\ req.response.kpis.net_change = J30 - L30
        /\ req.response.kpis.joined_30d = J30
        /\ req.response.kpis.left_30d = L30
        /\ J7 > 0 =>
              \E t \in {(1000 * L7) \div J7, ((1000 * L7) \div J7) + 1} :
                  /\ 2 * Abs(1000 * L7 - t * J7) <= J7
                  /\ req.response.kpis.churn_rate_7d = PercentText(t)
        /\ (J7 = 3 /\ L7 = 1 /\ J30 = 3 /\ L30 = 1) =>
              /\ req.response.kpis.net_change = 2
              /\ req.response.kpis.churn_rate_7d = <<"3", "3", ".", "3", "%">>

C6_Witness ==
    /\ Rendered
    /\ J7 = 3 /\ L7 = 1 /\ J30 = 3 /\ L30 = 1
    /\ req.response.kpis.net_change = 2
    /\ req.response.kpis.churn_rate_7d = <<"3", "3", ".", "3", "%">>

\* C6 as stated: the net change the KPIs hold is the joins minus the leaves of the
\* 30-day window and of the 7-day window alike
C6_NetChangeBothWindows ==
    Rendered =>
        /\ req.response.kpis.net_change = J30 - L30
        /\ req.response.kpis.net_change = J7 - L7

\* the channel id behind a top_channels entry named "ID:<key>"
ChannelOf(entry) == IntOfStr(SubSeq(entry.name, 4, Len(entry.name)))

\* C7: top_channels holds the channels with the largest counts, in descending order
\* of count, and channels with equal counts in the order of their channel ids
C7_TopChannelsTieByIdentity ==
    (Rendered /\ req.response.status = "200") =>
        LET top == req.response.kpis.top_channels
            mbc == MetricsGet(LoadedMetrics, "messages_by_channel")
        IN  /\ Len(top) = IF Len(mbc) < TopN THEN Len(mbc) ELSE TopN
            /\ \A i \in DOMAIN top :
                  DictGet(mbc, StrOfInt(ChannelOf(top[i])), -1) = top[i].count
            /\ \A i \in DOMAIN top : \A j \in DOMAIN top :
                  i < j =>
                     \/ top[i].count > top[j].count
                     \/ /\ top[i].count = top[j].count
                        /\ ChannelOf(top[i]) < ChannelOf(top[j])
            /\ \A i \in DOMAIN mbc :
                  (\A j \in DOMAIN top : ChannelOf(top[j]) # IntOfStr(mbc[i].k)) =>
                     \A j \in DOMAIN top : top[j].count >= mbc[i].v

(***************************************************************************)
(* SpecSearch: the dashboard's search over ledgers left by earlier runs.   *)
(***************************************************************************)
\* log_entry of update_log_and_metrics
LogEntry(action, target_id, moderator_id, reason, t) ==
    [timestamp |-> IsoFormat(t), action |-> action, target_id |-> StrOfInt(target_id),
     moderator_id |-> StrOfInt(moderator_id), reason |-> reason]

DrawnEntries ==
    {LogEntry(a, u, m, r, KpiNow) : a \in Actions, u \in Users, m \in Moderators, r \in Reasons}

DrawnLedgers == UNION {[1..k -> DrawnEntries] : k \in 0..MaxLedger}

\* the values of the form field user_id_search
SearchForms ==
    {<<>>, <<"1">>, <<"1", "2">>, <<" ", "1", "2", " ">>, <<"2">>, <<"b", "a", "n">>,
     <<"B", "A", "N">>, <<"s", "p">>, <<"S", "P", "A", "M">>, <<"x">>}

InitSearch ==
    \E logs \in DrawnLedgers :
        InitFrom([logs |-> logs], DefaultMetrics(KpiToday), KpiNow, KpiToday, NoLimits)

NextSearch ==
    \/ \E form \in SearchForms : DashboardLoadLogs("POST", form)
    \/ DashboardLoadLogs("GET", <<>>)
    \/ DashboardLoadMetrics
    \/ DashboardRender

SpecSearch == InitSearch /\ [][NextSearch]_vars

\* C8: for a non-empty query the search returns exactly the ledger records that hold
\* the query, whatever its case, in the subject id, the reason or the action kind,
\* in ledger order
C8_SearchMatchesAnyField ==
    (Rendered /\ req.method = "POST" /\ Strip(req.form) # <<>>) =>
        /\ req.response.searched
        /\ req.response.search_results =
              SelectSeq(req.mod_logs.data.logs,
                        LAMBDA log : MatchesAnyField(Strip(req.form), log))

(***************************************************************************)
(* SpecMonthly: update_monthly_metric over summaries left by earlier runs. *)
(***************************************************************************)
\* save_json(filepath, data) from start to end: open(filepath, 'w') raises and
\* leaves the file alone, or truncates it; json.dump then writes it all, or raises
SaveJson(content, data, outcome) ==
    CASE outcome = "open_raises" -> content
      [] outcome = "dump_raises" -> Truncated
      [] outcome = "written" -> Complete(data)

SaveOutcomes == {"open_raises", "dump_raises", "written"}

MonthlyKeys == {MetricKey(a) : a \in PunitiveActions}

\* update_monthly_metric(key)
UpdateMonthlyMetricCall(key) ==
    /\ nEvents < limits.events
    /\ nEvents' = nEvents + 1
    /\ \E outcome \in SaveOutcomes :
          LET summary == UpdateMonthlyMetric(SERVER_METRICS.monthly_summary, key, today)
              metrics == [SERVER_METRICS EXCEPT !.monthly_summary = summary]
          IN  /\ SERVER_METRICS' = metrics
              /\ files' = [files EXCEPT ![METRICS_FILE] =
                             IF key \in DOMAIN summary THEN SaveJson(@, metrics, outcome)
                             ELSE @]
    /\ UNCHANGED <<MOD_LOGS, CHANNEL_ACTIVITY, ACTIVE_CHATTERS, openW, lastWrite, botVars,
                   nCkpt, nFaults, limits, histVars, clockVars, req>>

MonthlyTodays == {[y |-> 2025, m |-> 3, d |-> 15], [y |-> 2025, m |-> 4, d |-> 1]}
MonthlyResets ==
    {[y |-> 2024, m |-> 3, d |-> 15], [y |-> 2024, m |-> 12, d |-> 31],
     [y |-> 2025, m |-> 2, d |-> 10], [y |-> 2025, m |-> 3, d |-> 1],
     [y |-> 2025, m |-> 3, d |-> 15]}

InitMonthly ==
    \E tdy \in MonthlyTodays, reset \in MonthlyResets,
       mutes \in 0..MaxCount, bans \in 0..MaxCount, kicks \in 0..MaxCount :
        InitFrom(DefaultLogs,
                 [DefaultMetrics(tdy) EXCEPT
                     !.monthly_summary = [total_mutes |-> mutes, total_bans |-> bans,
                                          total_kicks |-> kicks, last_reset |-> DateStr(reset),
                                          member_count_at_action |-> <<>>]],
                 KpiNow, tdy, [NoLimits EXCEPT !.events = MaxEvents + 1])

NextMonthly == \E key \in MonthlyKeys : UpdateMonthlyMetricCall(key)

SpecMonthly == InitMonthly /\ [][NextMonthly]_vars

EarlierMonth(d1, d2) == d1.y < d2.y \/ (d1.y = d2.y /\ d1.m < d2.m)
SameMonth(d1, d2) == d1.y = d2.y /\ d1.m = d2.m

\* C3: a record_action whose last_reset lies in an earlier calendar month (also the
\* same month number of an earlier year) leaves the recorded counter at 1, the other
\* two at 0 and last_reset at today; in the month of last_reset it adds 1 to the
\* recorded counter and changes nothing else
C3_MonthlyRollover ==
    [][\A key \in MonthlyKeys :
          UpdateMonthlyMetricCall(key) =>
             LET old == SERVER_METRICS.monthly_summary
                 new == SERVER_METRICS'.monthly_summary
                 others == MonthlyKeys \ {key}
             IN  /\ EarlierMonth(DateFromIso(old.last_reset), today) =>
                       /\ new[key] = 1
                       /\ \A k \in others : new[k] = 0
                       /\ new.last_reset = DateStr(today)
                 /\ SameMonth(DateFromIso(old.last_reset), today) =>
                       /\ new[key] = old[key] + 1
                       /\ \A k \in others : new[k] = old[k]
                       /\ new.last_reset = old.last_reset]_vars

(***************************************************************************)
(* The event-consumer thread: the coroutines of bot_logic.py.  A coroutine *)
(* runs from one await to the next without leaving the loop thread; the    *)
(* Flask thread runs beside it.  A task's pc names the await it is         *)
(* suspended at, or the save_json call it is executing.                    *)
(***************************************************************************)
SavePcs == {"save_logs", "save_monthly", "save_metrics"}
\* the awaits of vibe_command: the notice, session.post, response.json(), the result
\* reply, asyncio.sleep, response.text(), the status reply, the reply after the loop
\* and the reply of the except clause
VibePcs == {"vibe_notice", "vibe_post", "vibe_json", "vibe_result", "vibe_sleep",
            "vibe_text", "vibe_error", "vibe_exhausted", "vibe_internal"}
AwaitPcs == {"ban", "alert", "welcome", "delete", "notice", "sleep", "notice_delete",
             "effect", "flag_delete", "ack", "nack", "say_delete", "reply"} \cup VibePcs
\* the commands without a moderator check that call the generative API
GenerativeCommands == {"vibe"}
Commands == {"none", "kick", "ban", "mute", "flag", "unmute", "whois", "say", "purge",
             "commands"}
\* the commands decorated with @commands.check(is_moderator)
PrivilegedCommands == Commands \ {"none", "flag"}
\* the commands that call update_log_and_metrics, and plain messages
LoggingCommands == {"none", "kick", "ban", "mute", "flag"}
Targets == {12}               \* the members commands are aimed at
CommandAction(c) ==
    CASE c = "kick" -> "KICK" [] c = "ban" -> "BAN" [] c = "mute" -> "MUTE"
      [] c = "flag" -> "FLAG" [] OTHER -> "NONE"

\* the file a save position writes, and the global it dumps
FileAt(pc) == IF pc = "save_logs" THEN MOD_LOGS_FILE ELSE METRICS_FILE
DataForNewestOnly(f) ==
    IF f = MOD_LOGS_FILE THEN [logs |-> Take(MOD_LOGS.logs, 1)] ELSE SERVER_METRICS

DataFor(f) == IF f = MOD_LOGS_FILE THEN MOD_LOGS ELSE SERVER_METRICS

\* the lowest free handler slot
FreeSlot(t) ==
    /\ t \in Slots
    /\ tasks[t].kind = "idle"
    /\ t = "h2" => tasks["h1"].kind # "idle"

\* the loop thread runs one coroutine at a time
CanRun(t) == running \in {"none", t}

\* what one synchronous stretch of a coroutine leaves
R(task) == [task |-> task, logs |-> MOD_LOGS, metrics |-> SERVER_METRICS, ins |-> <<>>]
At(task, pc) == [task EXCEPT !.pc = pc]

Apply(t, r) ==
    /\ tasks' = [tasks EXCEPT ![t] = r.task]
    /\ MOD_LOGS' = r.logs
    /\ SERVER_METRICS' = r.metrics
    /\ appended' = appended \o r.ins
    /\ running' = IF r.task.pc \in SavePcs THEN t ELSE "none"

InsertTail(logs, entry) == Append(logs, entry)
InsertOverwrites(logs, entry) == <<entry>>

\* MOD_LOGS['logs'].insert(0, log_entry)
InsertHead(logs, entry) == <<entry>> \o logs

\* update_log_and_metrics up to its first save_json
UpdateLogStart(task) ==
    LET entry == LogEntry(CommandAction(task.command), task.subject, task.actor,
                          task.reason, now)
    IN  [R([task EXCEPT !.pc = "save_logs", !.logged = TRUE]) EXCEPT
            !.logs.logs = InsertHead(@, entry), !.ins = <<entry>>]

\* update_log_and_metrics from `if guild_members:` to its last save_json; flag passes
\* no guild_members
MemberCount(task, metrics) ==
    IF task.command # "flag"
    THEN [R(At(task, "save_metrics")) EXCEPT
            !.metrics = [metrics EXCEPT
                           !.monthly_summary.member_count_at_action = <<GuildSize>>]]
    ELSE [R(At(task, "save_metrics")) EXCEPT !.metrics = metrics]

LogJoinTwice(task) ==
    [R(At(task, "save_metrics")) EXCEPT
        !.metrics.members_joined = Append(Append(@, IsoFormat(now)), IsoFormat(now))]

\* on_member_join, 3: members_joined.append(now) up to save_json
LogJoin(task) ==
    [R(At(task, "save_metrics")) EXCEPT
        !.metrics.members_joined = Append(@, IsoFormat(now))]

\* on_member_join, 2: the welcome, sent when the channel is known
Welcome(task) == {R(At(task, "welcome")), LogJoin(task)}

IsModeratorAlways(actor) == TRUE

\* is_moderator(ctx): ctx.author.guild_permissions.manage_messages
IsModerator(actor) == actor \in Moderators

\* the command callback up to its first await or save: the moderator check, the
\* mute role lookup, purge's count test, the platform call; flag logs first; a failed
\* check raises CheckFailure, which no handler of the bot catches
ProcessCommands(task) ==
    CASE task.command = "none" -> {R(IdleTask)}
      [] task.command = "flag" -> {UpdateLogStart(task)}
      [] task.command \in PrivilegedCommands /\ ~IsModerator(task.actor) -> {R(IdleTask)}
      [] task.command \in {"kick", "ban"} -> {R(At(task, "effect"))}
      [] task.command \in {"mute", "unmute", "purge"} ->
            {R(At(task, "effect")), R(At(task, "nack"))}
      [] task.command = "say" -> {R(At(task, "say_delete"))}
      [] task.command = "whois" ->
            {R(At([task EXCEPT !.report = WhoisReport(MOD_LOGS.logs, task.subject)], "reply")),
             R(IdleTask)}
      [] task.command = "commands" -> {R(At(task, "reply"))}
      [] task.command \in GenerativeCommands -> {R(At(task, "vibe_notice"))}

LogsAfterEffectAlways(command) == TRUE

\* kick, ban and mute call update_log_and_metrics once their platform call returned
LogsAfterEffect(command) == command \in {"kick", "ban", "mute"}

AfterEffectIgnoresFailure(task, outcome) ==
    {UpdateLogStart([task EXCEPT !.effect = outcome])}

\* the code that follows the platform call of a command: member.kick, member.ban,
\* add_roles, remove_roles, channel.purge, channel.send
AfterEffect(task, outcome) ==
    LET ended == [task EXCEPT !.effect = outcome]
    IN  IF outcome = "returns"
        THEN IF LogsAfterEffect(task.command) THEN {UpdateLogStart(ended)}
             ELSE {R(At(ended, "ack"))}
        ELSE {R(At(ended, "nack"))}

StaysInSave(task) == {R(task)}

\* the code that follows a save_json, up to the next save or await
AfterSave(task) ==
    IF task.kind # "message" THEN {R(IdleTask)}
    ELSE CASE task.pc = "save_logs" ->
                IF CountsMonthly(CommandAction(task.command))
                THEN LET key == MetricKey(CommandAction(task.command))
                         summary == UpdateMonthlyMetric(SERVER_METRICS.monthly_summary,
                                                        key, today)
                         metrics == [SERVER_METRICS EXCEPT !.monthly_summary = summary]
                     IN  IF key \in DOMAIN summary
                         THEN {[R(At(task, "save_monthly")) EXCEPT !.metrics = metrics]}
                         ELSE {MemberCount(task, metrics)}
                ELSE {MemberCount(task, SERVER_METRICS)}
           [] task.pc = "save_monthly" -> {MemberCount(task, SERVER_METRICS)}
           [] task.pc = "save_metrics" ->
                {R(At(task, "alert")),
                 R(At(task, IF task.command = "flag" THEN "flag_delete" ELSE "ack"))}

AutoBannedRecords(task) == {UpdateLogStart([task EXCEPT !.command = "ban"])}

\* on_member_join after member.ban returned: the alert, when the channel is known,
\* and return
AutoBanned(task) == {R(At(task, "alert")), R(IdleTask)}

MaxRetries == 3        \* max_retries = 3
InitialDelay == 1      \* delay = 1
\* response.status as the code tells them apart: 200, 429, anything else
VibeStatuses == {"200", "429", "500"}
\* the decoded body of a 200 response: candidates with a text, no 'candidates' key
\* (the [{}] default applies), or an empty 'candidates' list
VibeBodies == {"text", "no_candidates", "empty_candidates"}

\* data.get('candidates', [{}])[0]... raises IndexError on an empty list
ExtractRaises(body) == body = "empty_candidates"

RetriesOnEvery429(status, i) == status = "429"

\* elif response.status == 429 and i < max_retries - 1, with i the loop index
RetriesOn(status, i) == status = "429" /\ i < MaxRetries - 1

\* the next iteration of for i in range(max_retries) posts the request
VibePost(task) == At([task EXCEPT !.vibe.requests = @ + 1], "vibe_post")
\* a reply of the handler after the notice
VibeReply(task, reply, pc) == At([task EXCEPT !.vibe.replies = Append(@, reply)], pc)
\* except Exception as e: await ctx.send(Internal Error)
VibeExcept(task) == VibeReply(task, "internal_error", "vibe_internal")

\* vibe_command after each of its awaits; an exception raised inside the try goes to
\* the except clause, one raised by the notice or by the except clause's own reply
\* leaves the callback
AfterVibe(task, outcome) ==
    CASE task.pc = "vibe_notice" ->
            IF outcome = "returns"
            THEN VibePost([task EXCEPT !.vibe.delay = InitialDelay])
            ELSE IdleTask
      [] task.pc = "vibe_post" ->
            LET got == [task EXCEPT !.vibe.status = outcome]
            IN  IF outcome = "raises" THEN VibeExcept(task)
                ELSE IF outcome = "200" THEN At(got, "vibe_json")
                ELSE IF RetriesOn(outcome, task.vibe.requests - 1)
                THEN At([got EXCEPT !.vibe.waits = Append(@, task.vibe.delay)], "vibe_sleep")
                ELSE At(got, "vibe_text")
      [] task.pc = "vibe_json" ->
            IF outcome = "raises" \/ ExtractRaises(outcome) THEN VibeExcept(task)
            ELSE VibeReply(task, "result", "vibe_result")
      [] task.pc = "vibe_sleep" ->
            LET slept == [task EXCEPT !.vibe.delay = @ * 2]
            IN  IF slept.vibe.requests < MaxRetries THEN VibePost(slept)
                ELSE VibeReply(slept, "exhausted", "vibe_exhausted")
      [] task.pc = "vibe_text" ->
            IF outcome = "returns" THEN VibeReply(task, "status_error", "vibe_error")
            ELSE VibeExcept(task)
      [] task.pc \in {"vibe_result", "vibe_error", "vibe_exhausted"} ->
            IF outcome = "returns" THEN IdleTask ELSE VibeExcept(task)
      [] task.pc = "vibe_internal" -> IdleTask

\* the code that follows an await, up to the next save or await
AfterAwait(task, outcome) ==
    IF task.kind = "join"
    THEN CASE task.pc = "ban" ->
                IF outcome = "returns" THEN AutoBanned(task) ELSE Welcome(task)
           [] task.pc = "alert" ->
                IF outcome = "returns" THEN {R(IdleTask)} ELSE Welcome(task)
           [] task.pc = "welcome" -> {LogJoin(task)}
    ELSE CASE task.pc \in {"delete", "notice", "notice_delete"} ->
                IF outcome = "returns"
                THEN {R(CASE task.pc = "delete" -> At(task, "notice")
                          [] task.pc = "notice" -> At(task, "sleep")
                          [] task.pc = "notice_delete" -> IdleTask)}
                ELSE IF outcome = "forbidden" THEN ProcessCommands(task)
                ELSE {R(IdleTask)}
           [] task.pc = "sleep" -> {R(At(task, "notice_delete"))}
           [] task.pc = "effect" -> AfterEffect(task, outcome)
           [] task.pc = "say_delete" ->
                IF outcome = "returns" THEN {R(At(task, "effect"))} ELSE {R(At(task, "nack"))}
           [] task.pc = "reply" -> {R(IdleTask)}
           [] task.pc = "alert" ->
                IF outcome = "returns"
                THEN {R(At(task, IF task.command = "flag" THEN "flag_delete" ELSE "ack"))}
                ELSE {R(At(task, "nack"))}
           [] task.pc = "flag_delete" ->
                IF outcome = "returns" THEN {R(At(task, "ack"))} ELSE {R(At(task, "nack"))}
           [] task.pc = "ack" ->
                IF outcome = "returns" THEN {R(IdleTask)} ELSE {R(At(task, "nack"))}
           [] task.pc = "nack" -> {R(IdleTask)}
           [] task.pc \in VibePcs -> {R(AfterVibe(task, outcome))}

Outcomes(task) ==
    IF task.pc \in {"sleep", "vibe_sleep"} THEN {"returns"}
    ELSE IF task.pc = "vibe_post" THEN VibeStatuses \cup {"raises"}
    ELSE IF task.pc = "vibe_json" THEN VibeBodies \cup {"raises"}
    ELSE IF task.kind = "message" /\ task.pc \in {"delete", "notice", "notice_delete"}
    THEN {"returns", "forbidden", "raises"}
    ELSE {"returns", "raises"}

\* an awaited platform call returns or raises, and the coroutine runs on
Resume(t) ==
    /\ tasks[t].pc \in AwaitPcs
    /\ CanRun(t)
    /\ \E outcome \in Outcomes(tasks[t]) : \E r \in AfterAwait(tasks[t], outcome) : Apply(t, r)
    /\ UNCHANGED <<CHANNEL_ACTIVITY, ACTIVE_CHATTERS, fileVars, saverRunning, countVars,
                   since, delta, ckptDone, boot, req, clockVars>>

\* a store write fails only while the run's budget of failures lasts
WriteOutcomes == IF nFaults < limits.faults THEN {"ok", "raises"} ELSE {"ok"}

LoopYieldsInSave(t) == "none"

\* save_json is a plain function: the loop thread stays in it from open to close
LoopOwnerInSave(t) == t

\* save_json: open(filepath, 'w') truncates the file, or raises
SaveOpen(t) ==
    /\ tasks[t].pc \in SavePcs
    /\ tasks[t].w = "closed"
    /\ CanRun(t)
    /\ \E outcome \in WriteOutcomes :
          LET f == FileAt(tasks[t].pc)
          IN  IF outcome = "ok"
              THEN /\ files' = [files EXCEPT ![f] = Truncated]
                   /\ openW' = [openW EXCEPT ![f] = @ \cup {t}]
                   /\ lastWrite' = [lastWrite EXCEPT
                                      ![f].st = "open", ![f].data = <<DataFor(f)>>]
                   /\ tasks' = [tasks EXCEPT ![t].w = "open"]
                   /\ running' = LoopOwnerInSave(t)
                   /\ UNCHANGED <<MOD_LOGS, SERVER_METRICS, appended, nFaults>>
              ELSE /\ nFaults' = nFaults + 1
                   /\ \E r \in AfterSave(tasks[t]) : Apply(t, r)
                   /\ lastWrite' = [lastWrite EXCEPT ![f].failed = @ + 1]
                   /\ UNCHANGED <<files, openW>>
    /\ UNCHANGED <<CHANNEL_ACTIVITY, ACTIVE_CHATTERS, saverRunning, nEvents, nCkpt, limits,
                   since, delta, ckptDone, boot, req, clockVars>>

\* save_json: json.dump writes the data and the file is closed, or it raises
SaveDump(t) ==
    /\ tasks[t].pc \in SavePcs
    /\ tasks[t].w = "open"
    /\ CanRun(t)
    /\ \E outcome \in WriteOutcomes :
          LET f == FileAt(tasks[t].pc)
              closed == [tasks[t] EXCEPT !.w = "closed"]
          IN  /\ IF outcome = "ok"
                 THEN /\ files' = [files EXCEPT ![f] = Complete(DataFor(f))]
                      /\ lastWrite' = [lastWrite EXCEPT ![f].st = "written"]
                      /\ nFaults' = nFaults
                 ELSE /\ files' = files
                      /\ lastWrite' = [lastWrite EXCEPT ![f].st = "failed", ![f].failed = @ + 1]
                      /\ nFaults' = nFaults + 1
              /\ ckptDone' = IF t = "saver" /\ outcome = "ok"
                              THEN SERVER_METRICS.messages_by_channel ELSE ckptDone
              /\ openW' = [openW EXCEPT ![f] = @ \ {t}]
              /\ \E r \in AfterSave(closed) : Apply(t, r)
    /\ UNCHANGED <<CHANNEL_ACTIVITY, ACTIVE_CHATTERS, saverRunning, nEvents, nCkpt, limits,
                   since, delta, boot, req, clockVars>>

IsBannedThisRun(logs, member) ==
    \E i \in 1..(Len(logs) - boot.loaded) :
        logs[i].target_id = StrOfInt(member) /\ logs[i].action = "BAN"

\* is_banned = any(log['target_id'] == str(member.id) and log['action'] == 'BAN' ...)
IsBanned(logs, member) ==
    \E i \in DOMAIN logs : logs[i].target_id = StrOfInt(member) /\ logs[i].action = "BAN"

eventFrame == <<CHANNEL_ACTIVITY, ACTIVE_CHATTERS, fileVars, saverRunning, nCkpt, nFaults,
                limits, since, delta, ckptDone, boot, req, clockVars>>

\* on_member_join(member) up to its first await or save
MemberJoin(t, member) ==
    /\ FreeSlot(t)
    /\ running = "none"
    /\ nEvents < limits.events
    /\ nEvents' = nEvents + 1
    /\ LET banned == IsBanned(MOD_LOGS.logs, member)
           task == [IdleTask EXCEPT !.kind = "join", !.subject = member, !.banned = banned]
       IN  \E r \in (IF banned THEN {R(At(task, "ban"))} ELSE Welcome(task)) : Apply(t, r)
    /\ UNCHANGED eventFrame

\* on_member_remove(member) up to its save
MemberRemove(t, member) ==
    /\ FreeSlot(t)
    /\ running = "none"
    /\ nEvents < limits.events
    /\ nEvents' = nEvents + 1
    /\ LET task == [IdleTask EXCEPT !.kind = "leave", !.subject = member]
       IN  Apply(t, [R(At(task, "save_metrics")) EXCEPT
                        !.metrics.members_left = Append(@, IsoFormat(now))])
    /\ UNCHANGED eventFrame

\* messages: the author, the channel, whether the author is a bot account, and the
\* content: empty, holding a suspicious link, being a command
Messages ==
    {[author |-> a, channel |-> c, bot |-> b, empty |-> FALSE, link |-> l, command |-> cmd,
      target |-> IF cmd = "none" THEN 0 ELSE u,
      reason |-> IF cmd = "none" THEN <<>> ELSE r] :
        a \in Users, c \in Channels, b \in BOOLEAN, l \in BOOLEAN,
        cmd \in Commands \cup GenerativeCommands,
        u \in Targets, r \in Reasons}
    \cup {[author |-> a, channel |-> c, bot |-> FALSE, empty |-> TRUE, link |-> FALSE,
           command |-> "none", target |-> 0, reason |-> <<>>] : a \in Users, c \in Channels}

Qualifies(msg) == ~msg.bot /\ ~msg.empty

IgnoredBotsOnly(msg) == msg.bot

\* if message.author.bot or not message.content: return
Ignored(msg) == msg.bot \/ msg.empty

\* CHANNEL_ACTIVITY[message.channel.id] += 1
Bump(activity, channel) == DictSet(activity, channel, DictGet(activity, channel, 0) + 1)

\* on_message(message) up to its first await or save
OnMessage(t, msg) ==
    /\ FreeSlot(t)
    /\ running = "none"
    /\ nEvents < limits.events
    /\ msg.command \in limits.commands
    /\ IF Ignored(msg)
       THEN UNCHANGED <<MOD_LOGS, SERVER_METRICS, CHANNEL_ACTIVITY, ACTIVE_CHATTERS, tasks,
                        running, nEvents, appended>>
       ELSE /\ nEvents' = nEvents + 1
            /\ ACTIVE_CHATTERS' = ACTIVE_CHATTERS \cup {StrOfInt(msg.author)}
            /\ CHANNEL_ACTIVITY' = Bump(CHANNEL_ACTIVITY, msg.channel)
            /\ LET task == [IdleTask EXCEPT
                              !.kind = "message", !.actor = msg.author,
                              !.command = msg.command, !.subject = msg.target,
                              !.reason = msg.reason]
               IN  \E r \in (IF msg.link /\ msg.author \notin Moderators
                             THEN {R(At(task, "delete"))}
                             ELSE ProcessCommands(task)) : Apply(t, r)
    /\ since' = IF Qualifies(msg) THEN [since EXCEPT ![msg.channel] = @ + 1] ELSE since
    /\ boot' = IF Qualifies(msg) THEN [boot EXCEPT !.authors = @ \cup {msg.author}] ELSE boot
    /\ UNCHANGED <<fileVars, saverRunning, nCkpt, nFaults, limits, delta, ckptDone, req, clockVars>>

IsRunningNever(n) == FALSE

\* metric_saver_loop.is_running()
IsRunning(n) == n > 0

\* on_ready(): if not metric_saver_loop.is_running(): metric_saver_loop.start()
OnReady ==
    /\ running = "none"
    /\ boot.readies < limits.readies
    /\ boot' = [boot EXCEPT !.readies = @ + 1]
    /\ saverRunning' = IF IsRunning(saverRunning) THEN saverRunning ELSE saverRunning + 1
    /\ UNCHANGED <<memVars, fileVars, tasks, running, countVars, appended, since, delta,
                   ckptDone, req, clockVars>>

CheckpointCopyStale(activity) == SERVER_METRICS.messages_by_channel

\* {str(k): v for k, v in CHANNEL_ACTIVITY.items()}
CheckpointCopy(activity) ==
    [i \in DOMAIN activity |-> [k |-> StrOfInt(activity[i].k), v |-> activity[i].v]]

\* one iteration of metric_saver_loop up to its save
Checkpoint ==
    /\ IsRunning(saverRunning)
    /\ tasks["saver"].kind = "idle"
    /\ running = "none"
    /\ nCkpt < limits.checkpoints
    /\ nCkpt' = nCkpt + 1
    /\ LET task == [IdleTask EXCEPT !.kind = "saver"]
       IN  Apply("saver", [R(At(task, "save_metrics")) EXCEPT
                              !.metrics.messages_by_channel = CheckpointCopy(CHANNEL_ACTIVITY)])
    /\ since' = [c \in Channels |-> 0]
    /\ delta' = since
    /\ UNCHANGED <<CHANNEL_ACTIVITY, ACTIVE_CHATTERS, fileVars, saverRunning, nEvents, nFaults,
                   limits, ckptDone, boot, req, clockVars>>

(***************************************************************************)
(* Spec: the bot alone, from empty stores, with store writes that succeed. *)
(***************************************************************************)
Init ==
    InitFrom(DefaultLogs, DefaultMetrics(KpiToday), KpiNow, KpiToday,
             [NoLimits EXCEPT !.events = MaxEvents, !.checkpoints = MaxCheckpoints,
                              !.commands = LoggingCommands])

Next ==
    \/ \E t \in Slots, member \in Users : MemberJoin(t, member)
    \/ \E t \in Slots, member \in Users : MemberRemove(t, member)
    \/ \E t \in Slots, msg \in Messages : OnMessage(t, msg)
    \/ OnReady
    \/ Checkpoint
    \/ \E t \in TaskIds : Resume(t)
    \/ \E t \in TaskIds : SaveOpen(t)
    \/ \E t \in TaskIds : SaveDump(t)

Spec == Init /\ [][Next]_vars

\* what a full read of the ledger file returns
ReadLedger == LoadData(files[MOD_LOGS_FILE], DefaultLogs).data.logs
LedgerSaved == \A t \in TaskIds : tasks[t].pc # "save_logs"

\* C1: starting from an empty ledger, the ledger holds exactly the records appended so
\* far, most recent first, none duplicated and none lost; once the append's save has
\* finished, a full read of the ledger file returns exactly these records.
C1_LedgerMostRecentFirst ==
    /\ Len(MOD_LOGS.logs) = Len(appended)
    /\ MOD_LOGS.logs = Reverse(appended)
    /\ LedgerSaved => ReadLedger = Reverse(appended)

C1_Witness ==
    /\ Len(appended) = 2
    /\ appended[1] # appended[2]
    /\ LedgerSaved
    /\ ReadLedger = <<appended[2], appended[1]>>

\* C2: a join event for a member whose BAN record is in the ledger never appends a
\* join timestamp, whatever the outcome of the platform calls: no step of a handler
\* that found the BAN record changes members_joined.
C2_BannedJoinNeverCounted ==
    [][\A t \in Slots :
          (tasks[t].kind = "join" /\ tasks[t].banned /\ tasks'[t] # tasks[t])
              => SERVER_METRICS'.members_joined = SERVER_METRICS.members_joined]_vars

\* the count a checkpoint writes for a channel; a channel it does not list counts 0
WrittenCount(metrics, channel) == DictGet(metrics.messages_by_channel, StrOfInt(channel), 0)

\* C4: a periodic checkpoint writes, for every channel K, the count the previous
\* checkpoint wrote plus the number of qualifying messages handled for K in between.
C4_CheckpointAddsMessages ==
    [][nCkpt' = nCkpt + 1 =>
          \A K \in Channels :
              WrittenCount(SERVER_METRICS', K) = WrittenCount(SERVER_METRICS, K) + since[K]]_vars

C4_Witness ==
    /\ nCkpt = 2
    /\ tasks["saver"].kind = "idle"
    /\ files[METRICS_FILE] = Complete(SERVER_METRICS)
    /\ \E K \in Channels : delta[K] = 1 /\ WrittenCount(SERVER_METRICS, K) = 2

(***************************************************************************)
(* SpecFault: the bot alone, with store writes that may fail.              *)
(***************************************************************************)
FaultEvents == 2
FaultCheckpoints == 1

\* the commands drawn while writes may fail: one that counts, one that does not
FaultCommands == {"none", "kick", "flag"}

InitFault ==
    InitFrom(DefaultLogs, DefaultMetrics(KpiToday), KpiNow, KpiToday,
             [NoLimits EXCEPT !.events = FaultEvents, !.checkpoints = FaultCheckpoints,
                              !.faults = MaxFaults, !.commands = FaultCommands])

SpecFault == InitFault /\ [][Next]_vars

MetricsWriters == openW[METRICS_FILE]
MetricsAtRest == MetricsWriters = {}

DashEvents == 1
DashCheckpoints == 1
DashForms == {<<>>, <<"1">>}
Methods == {"GET", "POST"}

InitDash ==
    InitFrom(DefaultLogs, DefaultMetrics(KpiToday), KpiNow, KpiToday,
             [NoLimits EXCEPT !.events = DashEvents, !.checkpoints = DashCheckpoints,
                              !.commands = LoggingCommands])

NextDash ==
    \/ Next
    \/ \E method \in Methods, form \in DashForms : DashboardLoadLogs(method, form)
    \/ DashboardLoadMetrics
    \/ DashboardRender
    \/ MetricsApi
    \/ Home

SpecDash == InitDash /\ [][NextDash]_vars

\* C9: a read of the ledger file or of the metrics file by a request handler never
\* finds the file empty or partly written, and so never falls back to default data.
C9_ReaderNeverFallsBack ==
    /\ ~req.mod_logs.fallback
    /\ ~req.server_metrics.fallback

(***************************************************************************)
(* The handlers of the event-consumer thread, one beside the other.        *)
(***************************************************************************)
HandlerInProgress == \E t \in Slots : tasks[t].kind # "idle"

\* C11: the handling of one event or command runs to completion before the handling
\* of the next begins: while a handler is between its first and its last step, also
\* while it waits on a platform call or on the 5-second delay, no other event is
\* handled and no other handler starts.
C11_OneEventAtATime ==
    [][HandlerInProgress =>
          /\ nEvents' = nEvents
          /\ \A u \in Slots : tasks[u].kind = "idle" => tasks'[u].kind = "idle"]_vars

\* a step of the request-responder thread
RequestStep == req' # req

\* C12: no request (the dashboard by GET or by POST with any search term, the metrics
\* API, the status page) changes the in-memory ledger, the metrics snapshot, the
\* active chatters, the channel activity or the content of either store file.
C12_RequestsOnlyRead ==
    [][RequestStep =>
          /\ MOD_LOGS' = MOD_LOGS
          /\ SERVER_METRICS' = SERVER_METRICS
          /\ ACTIVE_CHATTERS' = ACTIVE_CHATTERS
          /\ CHANNEL_ACTIVITY' = CHANNEL_ACTIVITY
          /\ files' = files]_vars

C12_Witness ==
    /\ req.pc = "done"
    /\ req.route = "dashboard"
    /\ req.method = "POST"
    /\ req.response.status = "500"
    /\ ~req.mod_logs.fallback
    /\ Len(req.mod_logs.data.logs) = 1
    /\ files[MOD_LOGS_FILE] = Complete(MOD_LOGS)

(***************************************************************************)
(* The moderation commands.                                                *)
(***************************************************************************)
PunitiveCommands == {"kick", "ban", "mute"}
Counters(metrics) == [k \in MonthlyKeys |-> metrics.monthly_summary[k]]
StepOf(t) == tasks'[t] # tasks[t]
\* the record a command's handler passes to the ledger
RecordOf(task) ==
    LogEntry(CommandAction(task.command), task.subject, task.actor, task.reason, now)

\* C13: for a kick, ban or mute by a privileged actor the platform call comes first;
\* when it has returned, and only then, one record with the matching action, the
\* target as subject and the invoker as actor goes to the head of the ledger, once;
\* the matching monthly counter is then incremented by one, once, and no other step
\* of the handler changes the ledger or the counters.
C13_EffectThenRecordThenCounter ==
    [][\A t \in Slots :
          /\ (tasks[t].kind = "idle" /\ tasks'[t].kind = "message"
                /\ tasks'[t].command \in PunitiveCommands /\ tasks'[t].actor \in Moderators) =>
                /\ tasks'[t].pc \in {"effect", "nack", "delete"}
                /\ ~tasks'[t].logged
                /\ MOD_LOGS' = MOD_LOGS
                /\ Counters(SERVER_METRICS') = Counters(SERVER_METRICS)
          /\ (StepOf(t) /\ tasks[t].kind = "message"
                /\ tasks[t].command \in PunitiveCommands /\ tasks[t].actor \in Moderators) =>
                LET task == tasks[t]
                    key == MetricKey(CommandAction(task.command))
                IN  /\ IF task.pc = "effect" /\ tasks'[t].pc = "save_logs"
                       THEN /\ ~task.logged
                            /\ tasks'[t].logged
                            /\ MOD_LOGS'.logs = <<RecordOf(task)>> \o MOD_LOGS.logs
                       ELSE /\ MOD_LOGS' = MOD_LOGS
                            /\ tasks'[t].kind = "message" => tasks'[t].logged = task.logged
                    /\ IF task.pc = "save_logs" /\ tasks'[t].pc # "save_logs"
                       THEN Counters(SERVER_METRICS') =
                               [Counters(SERVER_METRICS) EXCEPT ![key] = @ + 1]
                       ELSE Counters(SERVER_METRICS') = Counters(SERVER_METRICS)
                    /\ task.logged => tasks'[t].pc # "effect"
                    /\ (task.logged /\ task.pc # "save_logs") => tasks'[t].pc # "save_logs"]_vars

C13_Witness ==
    \E t \in Slots :
        /\ tasks[t].command = "ban"
        /\ tasks[t].pc = "ack"
        /\ tasks[t].logged
        /\ Head(MOD_LOGS.logs) = RecordOf(tasks[t])
        /\ Len(MOD_LOGS.logs) = 1
        /\ SERVER_METRICS.monthly_summary.total_bans = 1

\* C14: when the platform rejects the kick, ban or role-add call of a kick, ban or
\* mute command, or the mute role does not exist, no step of the handler changes the
\* ledger or the three monthly counters, and the handler sends the error message.
C14_FailedActionLeavesNoRecord ==
    [][\A t \in Slots :
          /\ (StepOf(t) /\ tasks'[t].command \in PunitiveCommands
                /\ tasks'[t].effect = "raises") =>
                /\ tasks[t].pc \in {"effect", "nack"}
                /\ tasks'[t].pc = "nack"
                /\ ~tasks'[t].logged
                /\ MOD_LOGS' = MOD_LOGS
                /\ Counters(SERVER_METRICS') = Counters(SERVER_METRICS)
          /\ (StepOf(t) /\ tasks'[t].command = "mute" /\ tasks[t].pc # "effect"
                /\ tasks'[t].pc = "nack" /\ tasks'[t].effect = "none") =>
                /\ ~tasks'[t].logged
                /\ MOD_LOGS' = MOD_LOGS
                /\ Counters(SERVER_METRICS') = Counters(SERVER_METRICS)
          /\ (StepOf(t) /\ tasks[t].command \in PunitiveCommands /\ tasks[t].pc = "nack"
                /\ ~tasks[t].logged) =>
                /\ tasks'[t].kind = "idle"
                /\ MOD_LOGS' = MOD_LOGS
                /\ Counters(SERVER_METRICS') = Counters(SERVER_METRICS)]_vars

C14_Witness ==
    \E t \in Slots :
        /\ tasks[t].command = "kick"
        /\ tasks[t].effect = "raises"
        /\ tasks[t].pc = "nack"
        /\ MOD_LOGS.logs = <<>>
        /\ Counters(SERVER_METRICS) = [k \in MonthlyKeys |-> 0]

(***************************************************************************)
(* SpecCmd: the bot alone, with every command of the bot.                  *)
(***************************************************************************)
CmdEvents == 2
CmdCheckpoints == 1

InitCmd ==
    InitFrom(DefaultLogs, DefaultMetrics(KpiToday), KpiNow, KpiToday,
             [NoLimits EXCEPT !.events = CmdEvents, !.checkpoints = CmdCheckpoints,
                              !.commands = Commands])

SpecCmd == InitCmd /\ [][Next]_vars

\* the commands that acknowledge to their invoker, and whether the action of one took
\* effect: the role was removed, or the ledger record was written
AcknowledgedCommands == {"kick", "ban", "mute", "unmute", "flag"}
TookEffect(task) ==
    IF task.command = "unmute" THEN task.effect = "returns" ELSE task.logged
FilterPcs == {"delete", "notice", "sleep", "notice_delete"}

\* C15: every kick, ban, mute, unmute or flag that is invoked yields exactly one
\* acknowledgment to its invoker, a success acknowledgment if and only if the action
\* took effect: the success message is sent only after the action took effect, the
\* failure message never after it, never both, and no invocation ends without one of
\* the two, a failed capability check included.
C15_OneTruthfulAcknowledgment ==
    [][\A t \in Slots :
          /\ (tasks'[t].command \in AcknowledgedCommands /\ tasks'[t].pc = "ack")
                => TookEffect(tasks'[t])
          /\ (tasks'[t].command \in AcknowledgedCommands /\ tasks'[t].pc = "nack")
                => ~TookEffect(tasks'[t])
          /\ (tasks[t].command \in AcknowledgedCommands /\ tasks[t].pc = "ack")
                => tasks'[t].pc # "nack"
          /\ (tasks[t].command \in AcknowledgedCommands /\ tasks[t].pc \notin FilterPcs
                /\ tasks'[t].kind = "idle") => tasks[t].pc \in {"ack", "nack"}
          /\ (nEvents' = nEvents + 1 /\ tasks[t].kind = "idle" /\ tasks'[t].kind = "idle") =>
                \A msg \in Messages :
                    (msg.command \in AcknowledgedCommands /\ ~msg.link) => ~OnMessage(t, msg)]_vars

\* C16: a kick, ban, mute, unmute, whois, say, purge or commands invocation by an
\* actor without moderation privilege never reaches a platform call, a reply or an
\* acknowledgment of the command and leaves the ledger and the metrics structure as
\* they are; a flag invocation by any member, privileged or not, is accepted and puts
\* a FLAG record with the target and the invoker into the ledger.
C16_OnlyFlagIsOpenToAll ==
    [][\A t \in Slots :
          /\ (tasks'[t].command \in PrivilegedCommands /\ tasks'[t].actor \notin Moderators) =>
                /\ tasks'[t].pc \in FilterPcs
                /\ ~tasks'[t].logged
                /\ tasks'[t].effect = "none"
          /\ (StepOf(t) /\ tasks[t].command \in PrivilegedCommands
                /\ tasks[t].actor \notin Moderators) =>
                /\ MOD_LOGS' = MOD_LOGS
                /\ SERVER_METRICS' = SERVER_METRICS
          /\ (nEvents' = nEvents + 1 /\ tasks[t].kind = "idle" /\ tasks'[t].kind = "idle") =>
                /\ \A msg \in Messages : (msg.command = "flag" /\ ~msg.link) => ~OnMessage(t, msg)
                /\ (\E msg \in Messages : /\ msg.command \in PrivilegedCommands
                                          /\ msg.author \notin Moderators
                                          /\ OnMessage(t, msg)) =>
                      /\ MOD_LOGS' = MOD_LOGS
                      /\ SERVER_METRICS' = SERVER_METRICS
          /\ (StepOf(t) /\ tasks'[t].command = "flag" /\ tasks'[t].pc \notin FilterPcs
                /\ (tasks[t].kind = "idle" \/ tasks[t].pc \in FilterPcs)) =>
                /\ tasks'[t].logged
                /\ MOD_LOGS'.logs = <<RecordOf(tasks'[t])>> \o MOD_LOGS.logs
                /\ Head(MOD_LOGS'.logs).action = "FLAG"]_vars

C16_Witness ==
    \E t, u \in Slots :
        /\ tasks[t].command = "flag"
        /\ tasks[t].actor \notin Moderators
        /\ tasks[t].logged
        /\ Head(MOD_LOGS.logs).action = "FLAG"
        /\ Head(MOD_LOGS.logs).moderator_id = StrOfInt(tasks[t].actor)
        /\ tasks[u].command \in PrivilegedCommands
        /\ tasks[u].actor \notin Moderators
        /\ tasks[u].pc \in FilterPcs
        /\ Len(MOD_LOGS.logs) = 1

UnrecordedCommands == {"unmute", "whois", "say", "purge", "commands"}

C18_FailedWriteKeepsMemory ==
    [][\A t \in TaskIds :
          (nFaults' = nFaults + 1 /\ running = t /\ tasks[t].pc \in SavePcs) =>
              LET task == tasks[t]
              IN  /\ MOD_LOGS' = MOD_LOGS
                  /\ task.pc = "save_logs" =>
                        /\ task.logged
                        /\ Len(MOD_LOGS'.logs) > 0
                        /\ Head(MOD_LOGS'.logs) = RecordOf(task)
                  /\ SERVER_METRICS'.members_joined = SERVER_METRICS.members_joined
                  /\ SERVER_METRICS'.members_left = SERVER_METRICS.members_left
                  /\ SERVER_METRICS'.messages_by_channel = SERVER_METRICS.messages_by_channel
                  /\ task.pc # "save_logs" =>
                        Counters(SERVER_METRICS') = Counters(SERVER_METRICS)
                  /\ task.pc = "save_monthly" =>
                        SERVER_METRICS'.monthly_summary[MetricKey(CommandAction(task.command))] > 0
                  /\ (task.kind = "join" /\ task.pc = "save_metrics") =>
                        Len(SERVER_METRICS'.members_joined) > 0
                  /\ files' = files
                  /\ tasks'[t].pc # task.pc
                  /\ tasks'[t].w = "closed"]_vars

C18_Witness ==
    /\ nFaults = 1
    /\ Len(appended) = 1
    /\ MOD_LOGS.logs = appended
    /\ files[MOD_LOGS_FILE] # Complete(MOD_LOGS)
    /\ \E t \in Slots : /\ tasks[t].command = "kick"
                        /\ tasks[t].logged
                        /\ tasks[t].pc = "ack"
                        /\ Head(MOD_LOGS.logs) = RecordOf(tasks[t])
                        /\ Counters(SERVER_METRICS)[MetricKey(CommandAction(tasks[t].command))] = 1

(***************************************************************************)
(* SpecRestart: the bot alone; the process may die at any point and is     *)
(* started again, which runs load_initial_data over the files as they are. *)
(***************************************************************************)
RestartEvents == 2
RestartCheckpoints == 1
MaxCrashes == 1       \* deaths of the process in one run

LoadJsonKeepsMemory(content, default) ==
    IF content = Truncated
    THEN IF default = DefaultLogs THEN MOD_LOGS ELSE SERVER_METRICS
    ELSE content[1]

\* load_json(filepath, default_data) for a file that exists: json.load(f), or
\* default_data when it raises JSONDecodeError
LoadJson(content, default) ==
    IF content = Truncated THEN default ELSE content[1]

\* the process dies: handlers, the loop, the request served and the memory are gone, a file that was open
\* for writing stays as the write left it; the module is imported again and
\* load_initial_data() runs
CrashRestart ==
    /\ boot.n < limits.crashes
    /\ boot' = [n |-> boot.n + 1, corrupt |-> {f \in FileNames : files[f] = Truncated},
                authors |-> {},
                loaded |-> Len(LoadJson(files[MOD_LOGS_FILE], DefaultLogs).logs),
                readies |-> 0]
    /\ MOD_LOGS' = LoadJson(files[MOD_LOGS_FILE], DefaultLogs)
    /\ SERVER_METRICS' = LoadJson(files[METRICS_FILE], DefaultMetrics(today))
    /\ CHANNEL_ACTIVITY' = RestoreActivity(MetricsGet(SERVER_METRICS', "messages_by_channel"))
    /\ ACTIVE_CHATTERS' = {}
    /\ tasks' = [t \in TaskIds |-> IdleTask]
    /\ running' = "none"
    /\ saverRunning' = 0
    /\ openW' = [f \in FileNames |-> {}]
    /\ lastWrite' = [f \in FileNames |-> NoWrite]
    /\ appended' = Reverse(MOD_LOGS'.logs)
    /\ since' = [c \in Channels |-> 0]
    /\ delta' = [c \in Channels |-> 0]
    /\ ckptDone' = SERVER_METRICS'.messages_by_channel
    /\ req' = IdleReq
    /\ UNCHANGED <<files, countVars, clockVars>>

InitRestart ==
    InitFrom(DefaultLogs, DefaultMetrics(KpiToday), KpiNow, KpiToday,
             [NoLimits EXCEPT !.events = RestartEvents, !.checkpoints = RestartCheckpoints,
                              !.crashes = MaxCrashes, !.commands = LoggingCommands])

NextRestart ==
    \/ Next
    \/ CrashRestart

SpecRestart == InitRestart /\ [][NextRestart]_vars

DefaultFor(f) == IF f = MOD_LOGS_FILE THEN DefaultLogs ELSE DefaultMetrics(today)

\* C19: a start that finds a store file it cannot decode leaves the file as it is and
\* sets the structure of that file to the default (the empty ledger, or the default
\* metrics with zero counters and no counts); and the step that completes the next
\* write of that file leaves in it the whole structure as it is in memory at the write.
C19_CorruptFileFallsBackToDefault ==
    [][\A f \in FileNames :
          /\ (boot'.n = boot.n + 1 /\ files[f] = Truncated) =>
                /\ f \in boot'.corrupt
                /\ files'[f] = files[f]
                /\ (IF f = MOD_LOGS_FILE THEN MOD_LOGS' ELSE SERVER_METRICS') = DefaultFor(f)
                /\ f = METRICS_FILE => CHANNEL_ACTIVITY' = <<>>
          /\ (boot'.n = boot.n /\ f \in boot.corrupt /\ files[f] = Truncated
                /\ files'[f] # files[f]) =>
                /\ files'[f] = Complete(DataFor(f))
                /\ LoadJson(files'[f], DefaultFor(f)) = DataFor(f)]_vars

C19_Witness ==
    /\ boot.n = 1
    /\ MOD_LOGS_FILE \in boot.corrupt
    /\ Len(MOD_LOGS.logs) = 1
    /\ files[MOD_LOGS_FILE] = Complete(MOD_LOGS)
    /\ LedgerSaved

\* the records whose append (insert and save) had completed
CompletedRecords ==
    IF \E t \in TaskIds : tasks[t].pc = "save_logs" THEN Tail(MOD_LOGS.logs) ELSE MOD_LOGS.logs

\* C20: whenever the process dies and starts again, in the middle of a store write
\* included, the reloaded ledger contains every record whose append had completed, and
\* every channel's reloaded message count is at least the count the last completed
\* periodic checkpoint wrote for it.
C20_RestartKeepsCompletedWork ==
    [][boot'.n = boot.n + 1 =>
          /\ \A i \in DOMAIN CompletedRecords :
                \E j \in DOMAIN MOD_LOGS'.logs : MOD_LOGS'.logs[j] = CompletedRecords[i]
          /\ \A K \in Channels :
                DictGet(CHANNEL_ACTIVITY', K, 0) >= DictGet(ckptDone, StrOfInt(K), 0)]_vars

\* C27: for every ledger, an authenticated GET of the dashboard ends without error
\* and shows exactly the first min(10, N) records of the ledger it read, in ledger order.
C27_DashboardShowsRecentRecords ==
    (Rendered /\ req.method = "GET") =>
        /\ req.response.status = "200"
        /\ req.response.recent_logs = Take(req.mod_logs.data.logs, RecentN)

ActivityCount(activity, channel) == DictGet(activity, channel, 0)

\* C21: a message that is neither from a bot account nor empty adds exactly 1 to the
\* count of its own channel, leaves the count of every other channel as it was and
\* makes the active-chatter set the old set plus its author, whether the content
\* filter then removes it or not; a message from a bot account or with empty content
\* changes nothing and starts no handler.
C21_MessageCountedOnce ==
    [][\A t \in Slots :
          FreeSlot(t) =>
              \A msg \in Messages :
                  OnMessage(t, msg) =>
                      IF msg.bot \/ msg.empty
                      THEN UNCHANGED vars
                      ELSE /\ ActivityCount(CHANNEL_ACTIVITY', msg.channel) =
                                 ActivityCount(CHANNEL_ACTIVITY, msg.channel) + 1
                           /\ \A K \in Channels \ {msg.channel} :
                                 ActivityCount(CHANNEL_ACTIVITY', K) =
                                    ActivityCount(CHANNEL_ACTIVITY, K)
                           /\ DictKeys(CHANNEL_ACTIVITY') =
                                 DictKeys(CHANNEL_ACTIVITY) \cup {msg.channel}
                           /\ ACTIVE_CHATTERS' = ACTIVE_CHATTERS \cup {StrOfInt(msg.author)}]_vars

C21_Witness ==
    /\ ActivityCount(CHANNEL_ACTIVITY, 1) = 2
    /\ ActivityCount(CHANNEL_ACTIVITY, 2) = 0
    /\ Cardinality(ACTIVE_CHATTERS) = 1
    /\ \E t \in Slots : tasks[t].kind = "message" /\ tasks[t].pc = "notice"

\* C22: a message that holds a denylisted substring and whose author lacks moderation
\* privilege is never dispatched as a command: whatever the delete call does, the
\* handler of that message stays in the filter or ends, and none of its steps changes
\* the ledger or a monthly counter.
C22_FilteredMessageNeverDispatched ==
    [][\A t \in Slots :
          (StepOf(t) /\ tasks[t].kind = "message" /\ tasks[t].pc \in FilterPcs) =>
              /\ tasks'[t].pc \in FilterPcs \cup {"idle"}
              /\ MOD_LOGS' = MOD_LOGS
              /\ Counters(SERVER_METRICS') = Counters(SERVER_METRICS)]_vars

MetricsOnDisk == LoadJson(files[METRICS_FILE], DefaultMetrics(today))

\* C23: a member-left handler appends one timestamp to members_left, in its first
\* step, and nothing else to either sequence; a member-joined handler for a subject
\* without a BAN record appends one timestamp to members_joined, in the step that
\* takes it to its save, never ends without that step and appends nothing else; and
\* when such a handler ends with a write that succeeded, members_joined and
\* members_left in the metrics file equal the sequences in memory.
C23_JoinLeaveTimestamps ==
    [][\A t \in Slots :
          /\ (tasks[t].kind = "idle" /\ tasks'[t].kind = "leave") =>
                /\ tasks'[t].pc = "save_metrics"
                /\ SERVER_METRICS'.members_left =
                      Append(SERVER_METRICS.members_left, IsoFormat(now))
                /\ SERVER_METRICS'.members_joined = SERVER_METRICS.members_joined
          /\ (StepOf(t) /\ tasks[t].kind = "leave") =>
                /\ SERVER_METRICS'.members_left = SERVER_METRICS.members_left
                /\ SERVER_METRICS'.members_joined = SERVER_METRICS.members_joined
          /\ (StepOf(t) /\ \/ tasks[t].kind = "join" /\ ~tasks[t].banned
                           \/ tasks'[t].kind = "join" /\ ~tasks'[t].banned) =>
                /\ SERVER_METRICS'.members_left = SERVER_METRICS.members_left
                /\ SERVER_METRICS'.members_joined =
                      IF tasks'[t].pc = "save_metrics" /\ tasks[t].pc # "save_metrics"
                      THEN Append(SERVER_METRICS.members_joined, IsoFormat(now))
                      ELSE SERVER_METRICS.members_joined
                /\ tasks'[t].kind = "idle" => tasks[t].pc = "save_metrics"
          /\ (StepOf(t) /\ tasks[t].kind \in {"join", "leave"} /\ tasks'[t].kind = "idle"
                /\ tasks[t].pc = "save_metrics" /\ tasks[t].w = "open"
                /\ nFaults' = nFaults) =>
                /\ files'[METRICS_FILE] # Truncated
                /\ MetricsOnDisk'.members_joined = SERVER_METRICS'.members_joined
                /\ MetricsOnDisk'.members_left = SERVER_METRICS'.members_left]_vars

C23_Witness ==
    /\ Len(SERVER_METRICS.members_joined) = 1
    /\ Len(SERVER_METRICS.members_left) = 1
    /\ \A t \in TaskIds : tasks[t].kind = "idle"
    /\ MetricsOnDisk.members_joined = SERVER_METRICS.members_joined
    /\ MetricsOnDisk.members_left = SERVER_METRICS.members_left
    /\ files[METRICS_FILE] # Truncated

LedgerOnDisk == LoadJson(files[MOD_LOGS_FILE], DefaultLogs)

\* C24: every store write that succeeds leaves in the file the whole structure as it
\* is in memory: after a successful save of the ledger file the ledger on disk equals
\* the ledger in memory, every record whose own save had failed included; after a
\* successful save of the metrics file its timestamps, message counts and monthly
\* counters equal those in memory.
C24_NextSaveWritesEverything ==
    [][\A t \in TaskIds :
          (StepOf(t) /\ tasks[t].pc \in SavePcs /\ tasks[t].w = "open"
             /\ nFaults' = nFaults) =>
              IF tasks[t].pc = "save_logs"
              THEN /\ files'[MOD_LOGS_FILE] # Truncated
                   /\ LedgerOnDisk' = MOD_LOGS'
                   /\ LedgerOnDisk'.logs = Reverse(appended')
              ELSE /\ files'[METRICS_FILE] # Truncated
                   /\ MetricsOnDisk'.members_joined = SERVER_METRICS'.members_joined
                   /\ MetricsOnDisk'.members_left = SERVER_METRICS'.members_left
                   /\ MetricsOnDisk'.messages_by_channel = SERVER_METRICS'.messages_by_channel
                   /\ Counters(MetricsOnDisk') = Counters(SERVER_METRICS')]_vars

C24_Witness ==
    /\ lastWrite[MOD_LOGS_FILE].failed = 1
    /\ lastWrite[MOD_LOGS_FILE].st = "written"
    /\ LedgerSaved
    /\ Len(MOD_LOGS.logs) = 2
    /\ LedgerOnDisk = MOD_LOGS

\* C25: the ledger in memory is append-only and its records never change: every step
\* of the running bot either leaves the ledger as it is or puts exactly one new
\* record at its head, so the ledger before a step is a suffix of the ledger after it.
C25_LedgerAppendOnly ==
    [][\/ MOD_LOGS' = MOD_LOGS
       \/ /\ Len(MOD_LOGS'.logs) = Len(MOD_LOGS.logs) + 1
          /\ Tail(MOD_LOGS'.logs) = MOD_LOGS.logs
          /\ DOMAIN MOD_LOGS' = DOMAIN MOD_LOGS]_vars

C25_Witness ==
    /\ Len(MOD_LOGS.logs) = 2
    /\ MOD_LOGS.logs[1] # MOD_LOGS.logs[2]
    /\ MOD_LOGS.logs[2] = appended[1]
    /\ MOD_LOGS.logs[1] = appended[2]
    /\ LedgerSaved

(***************************************************************************)
(* SpecChat: messages that are no commands, joins and leaves, the          *)
(* dashboard beside them, and a process that may die and start again.      *)
(***************************************************************************)
ChatEvents == 2
ChatCheckpoints == 1

InitChat ==
    InitFrom(DefaultLogs, DefaultMetrics(KpiToday), KpiNow, KpiToday,
             [NoLimits EXCEPT !.events = ChatEvents, !.checkpoints = ChatCheckpoints,
                              !.crashes = MaxCrashes])

NextChat ==
    \/ Next
    \/ DashboardLoadLogs("GET", <<>>)
    \/ DashboardLoadMetrics
    \/ DashboardRender
    \/ CrashRestart

SpecChat == InitChat /\ [][NextChat]_vars

WhoisEvents == 1
WhoisCheckpoints == 1

InitWhois ==
    \E logs \in DrawnLedgers :
        InitFrom([logs |-> logs], DefaultMetrics(KpiToday), KpiNow, KpiToday,
                 [NoLimits EXCEPT !.events = WhoisEvents, !.checkpoints = WhoisCheckpoints,
                                  !.commands = {"whois"}])

SpecWhois == InitWhois /\ [][Next]_vars

Incidents(logs, member) ==
    Cardinality({i \in DOMAIN logs : /\ logs[i].target_id = StrOfInt(member)
                                     /\ logs[i].action \in PunitiveActions})

\* C28: the report whois builds for subject S counts exactly the ledger records with
\* subject S and action MUTE, KICK or BAN; FLAG records are never counted, a subject
\* with none but FLAG records gets the clean record; and no step of whois changes the
\* ledger, so every FLAG record stays in it.
C28_WhoisCountsIncidents ==
    [][\A t \in Slots :
          /\ (tasks'[t].command = "whois" /\ tasks'[t].pc = "reply" /\ tasks[t].pc # "reply") =>
                LET n == Incidents(MOD_LOGS.logs, tasks'[t].subject)
                    report == tasks'[t].report
                IN  /\ report.made
                    /\ report.incidents = n
                    /\ report.clean <=> n = 0
                    /\ \A i \in DOMAIN report.history :
                          /\ report.history[i].action # "FLAG"
                          /\ report.history[i].target_id = StrOfInt(tasks'[t].subject)
          /\ (StepOf(t) /\ (tasks[t].command = "whois" \/ tasks'[t].command = "whois")) =>
                MOD_LOGS' = MOD_LOGS]_vars

C28_Witness ==
    \E t \in Slots :
        /\ tasks[t].command = "whois"
        /\ tasks[t].pc = "reply"
        /\ tasks[t].report.incidents = 1
        /\ \E i, j \in DOMAIN MOD_LOGS.logs :
              /\ MOD_LOGS.logs[i].action = "FLAG"
              /\ MOD_LOGS.logs[i].target_id = StrOfInt(tasks[t].subject)
              /\ MOD_LOGS.logs[j].action = "KICK"
              /\ MOD_LOGS.logs[j].target_id = StrOfInt(tasks[t].subject)

(***************************************************************************)
(* SpecFlag: flag commands over monthly summaries left by earlier runs.    *)
(***************************************************************************)
FlagEvents == 1
FlagCheckpoints == 1

InitFlag ==
    \E tdy \in MonthlyTodays, reset \in MonthlyResets, kicks \in 0..MaxCount :
        InitFrom(DefaultLogs,
                 [DefaultMetrics(tdy) EXCEPT
                     !.monthly_summary = [total_mutes |-> 1, total_bans |-> 1,
                                          total_kicks |-> kicks, last_reset |-> DateStr(reset),
                                          member_count_at_action |-> <<>>]],
                 KpiNow, tdy,
                 [NoLimits EXCEPT !.events = FlagEvents, !.checkpoints = FlagCheckpoints,
                                  !.commands = {"flag"}])

SpecFlag == InitFlag /\ [][Next]_vars

\* C29: a flag command puts exactly one FLAG record at the head of the ledger, in the
\* step that calls update_log_and_metrics, and never ends without it; no step of the
\* command changes total_kicks, total_mutes, total_bans or last_reset, also when
\* last_reset lies in an earlier month than today.
C29_FlagCountsNothing ==
    [][\A t \in Slots :
          (StepOf(t) /\ (tasks[t].command = "flag" \/ tasks'[t].command = "flag")) =>
              /\ SERVER_METRICS'.monthly_summary = SERVER_METRICS.monthly_summary
              /\ IF tasks'[t].logged /\ ~tasks[t].logged
                 THEN /\ MOD_LOGS'.logs = <<RecordOf(tasks'[t])>> \o MOD_LOGS.logs
                      /\ Head(MOD_LOGS'.logs).action = "FLAG"
                 ELSE MOD_LOGS' = MOD_LOGS
              /\ (tasks[t].command = "flag" /\ tasks[t].pc \notin FilterPcs
                    /\ tasks'[t].kind = "idle") => tasks[t].logged]_vars

C29_Witness ==
    \E t \in Slots :
        /\ tasks[t].command = "flag"
        /\ tasks[t].pc = "ack"
        /\ tasks[t].logged
        /\ Len(MOD_LOGS.logs) = 1
        /\ EarlierMonth(DateFromIso(SERVER_METRICS.monthly_summary.last_reset), today)
        /\ SERVER_METRICS.monthly_summary.total_kicks = MaxCount
        /\ files[METRICS_FILE] = Complete(SERVER_METRICS)

BanRecords(logs) == Cardinality({i \in DOMAIN logs : logs[i].action = "BAN"})

\* C30: no step of a member-joined handler, of a member-left handler or of the handler
\* of a message that carries no command changes the ledger or a monthly counter; in
\* particular the automatic ban of a subject with a BAN record writes no record and
\* leaves total_bans and the number of BAN records as they are.
C30_EventsLeaveLedgerAlone ==
    [][\A t \in Slots :
          /\ (StepOf(t) /\ \/ tasks[t].kind \in {"join", "leave"}
                           \/ tasks'[t].kind \in {"join", "leave"}
                           \/ tasks[t].kind = "message" /\ tasks[t].command = "none"
                           \/ tasks'[t].kind = "message" /\ tasks'[t].command = "none") =>
                /\ MOD_LOGS' = MOD_LOGS
                /\ Counters(SERVER_METRICS') = Counters(SERVER_METRICS)
                /\ BanRecords(MOD_LOGS'.logs) = BanRecords(MOD_LOGS.logs)
                /\ ~tasks'[t].logged
          /\ (nEvents' = nEvents + 1 /\ tasks' = tasks) =>
                /\ MOD_LOGS' = MOD_LOGS
                /\ Counters(SERVER_METRICS') = Counters(SERVER_METRICS)]_vars

C30_Witness ==
    \E t \in Slots :
        /\ tasks[t].kind = "join"
        /\ tasks[t].banned
        /\ tasks[t].pc = "alert"
        /\ BanRecords(MOD_LOGS.logs) = 1
        /\ Len(MOD_LOGS.logs) = 1
        /\ SERVER_METRICS.monthly_summary.total_bans = 1

\* C31: whenever a member-joined event arrives for a subject and the ledger file is
\* intact and holds a BAN record for that subject, the handler finds the record and
\* goes to the ban, in the process that wrote the record and in every process started
\* after it.
C31_BanSurvivesRestart ==
    [][\A t \in Slots :
          (/\ tasks[t].kind = "idle"
           /\ tasks'[t].kind = "join"
           /\ files[MOD_LOGS_FILE] # Truncated
           /\ \E i \in DOMAIN LedgerOnDisk.logs :
                 /\ LedgerOnDisk.logs[i].action = "BAN"
                 /\ LedgerOnDisk.logs[i].target_id = StrOfInt(tasks'[t].subject)) =>
                /\ tasks'[t].banned
                /\ tasks'[t].pc = "ban"]_vars

\* a process that loaded the BAN record at its start is about to ban the subject again
C31_Witness ==
    \E t \in Slots :
        /\ boot.n = 1
        /\ boot.loaded = 1
        /\ Len(MOD_LOGS.logs) = 1
        /\ MOD_LOGS.logs[1].action = "BAN"
        /\ files[MOD_LOGS_FILE] = Complete(MOD_LOGS)
        /\ tasks[t].kind = "join"
        /\ tasks[t].pc = "ban"
        /\ tasks[t].banned
        /\ MOD_LOGS.logs[1].target_id = StrOfInt(tasks[t].subject)

\* C32: when a periodic checkpoint has completed, no message has been counted since and
\* the process restarts, every channel's count in memory after the startup equals its
\* count before the restart.
C32_CheckpointRestartRoundTrip ==
    [][(/\ boot'.n = boot.n + 1
        /\ nCkpt >= 1
        /\ tasks["saver"].kind = "idle"
        /\ ckptDone = CheckpointCopy(CHANNEL_ACTIVITY)) =>
            \A K \in Channels :
                ActivityCount(CHANNEL_ACTIVITY', K) = ActivityCount(CHANNEL_ACTIVITY, K)]_vars

(***************************************************************************)
(* SpecReady: the bot with a ready event that fires again after a          *)
(* reconnect.                                                              *)
(***************************************************************************)
MaxReadies == 2
ReadyEvents == 1
ReadyCheckpoints == 2

InitReady ==
    InitFrom(DefaultLogs, DefaultMetrics(KpiToday), KpiNow, KpiToday,
             [NoLimits EXCEPT !.events = ReadyEvents, !.checkpoints = ReadyCheckpoints,
                              !.readies = MaxReadies])

SpecReady == InitReady /\ [][Next]_vars

\* C33: the number of running checkpoint tasks never exceeds one; a ready event that
\* finds none running starts one, and a ready event that finds one running starts
\* nothing and leaves the running task as it is.
C33_OneCheckpointTask ==
    [][/\ saverRunning' <= 1
       /\ boot'.readies = boot.readies + 1 =>
            /\ saverRunning' = 1
            /\ saverRunning = 1 => tasks'["saver"] = tasks["saver"]]_vars

\* the ready event has fired twice and one checkpoint task is running and has saved
C33_Witness ==
    /\ boot.readies = 2
    /\ saverRunning = 1
    /\ nCkpt >= 1
    /\ lastWrite[METRICS_FILE].st # "none"

(***************************************************************************)
(* SpecVibe: the bot serving the vibe command; every awaited call          *)
(* eventually returns or raises and every save that was started runs on.   *)
(***************************************************************************)
VibeEvents == 1
VibeCheckpoints == 1

InitVibe ==
    InitFrom(DefaultLogs, DefaultMetrics(KpiToday), KpiNow, KpiToday,
             [NoLimits EXCEPT !.events = VibeEvents, !.checkpoints = VibeCheckpoints,
                              !.commands = GenerativeCommands])

SpecVibe ==
    /\ InitVibe
    /\ [][Next]_vars
    /\ \A t \in TaskIds : WF_vars(Resume(t)) /\ WF_vars(SaveOpen(t)) /\ WF_vars(SaveDump(t))

\* the replies a vibe handler sends after a response with the given status
FinalReplyFor(status) == IF status = "200" THEN "result" ELSE "status_error"

\* C34 as stated: a vibe handler that has sent its notice ends having sent exactly one
\* reply after it, the result when the last response had status 200 and an error
\* message otherwise.
C34_ExactlyOneFinalReply ==
    [][\A t \in Slots :
          (/\ tasks[t].pc \in VibePcs \ {"vibe_notice"}
           /\ tasks'[t].kind = "idle") =>
                /\ Len(tasks[t].vibe.replies) = 1
                /\ tasks[t].vibe.status = "200" <=> tasks[t].vibe.replies[1] = "result"]_vars

\* C34, amended: a vibe handler ends; it posts at most 3 requests, posts again only
\* after a 429 response to its first or second request and a sleep of 1 then 2
\* seconds, and never reaches the reply after the loop.  Once the notice is sent it
\* ends only after a reply: the result after a 200 response whose body it could read,
\* the status error after any other final response, and the internal-error reply when
\* the request, the reading of the response or one of those replies raised, so that it
\* sends one reply or, when the first send raised, two.
C34_VibeTerminatesAndReplies ==
    /\ [][\A t \in Slots :
            LET old == tasks[t].vibe
                new == tasks'[t].vibe
            IN  /\ new.requests <= MaxRetries
                /\ tasks'[t].pc # "vibe_exhausted"
                /\ new.waits \in {<<>>, <<1>>, <<1, 2>>}
                /\ (new.requests = old.requests + 1 /\ old.requests >= 1) =>
                      /\ tasks[t].pc = "vibe_sleep"
                      /\ old.status = "429"
                      /\ old.requests <= 2
                      /\ Len(old.waits) = old.requests
                /\ (tasks[t].pc \in VibePcs \ {"vibe_notice"} /\ tasks'[t].kind = "idle") =>
                      /\ tasks[t].pc \in {"vibe_result", "vibe_error", "vibe_internal"}
                      /\ Len(old.replies) \in {1, 2}
                /\ Len(new.replies) > Len(old.replies) =>
                      LET reply == new.replies[Len(new.replies)]
                      IN  /\ reply = "result" => old.replies = <<>> /\ old.status = "200"
                          /\ reply = "status_error" =>
                                /\ old.replies = <<>>
                                /\ old.status \in VibeStatuses \ {"200"}
                                /\ old.status = "429" => old.requests = MaxRetries
                          /\ reply = "internal_error" =>
                                \/ old.replies = <<>> /\ tasks[t].pc \in {"vibe_post", "vibe_json", "vibe_text"}
                                \/ /\ old.replies = <<FinalReplyFor(old.status)>>
                                   /\ tasks[t].pc \in {"vibe_result", "vibe_error"}
                          /\ reply # "exhausted"]_vars
    /\ \A t \in Slots : (tasks[t].pc \in VibePcs) ~> (tasks[t].kind = "idle")

\* a handler that slept 1 and 2 seconds after two 429 responses and got 200 for its
\* third request is sending the result
C34_Witness ==
    \E t \in Slots :
        /\ tasks[t].command = "vibe"
        /\ tasks[t].pc = "vibe_result"
        /\ tasks[t].vibe.requests = MaxRetries
        /\ tasks[t].vibe.waits = <<1, 2>>
        /\ tasks[t].vibe.status = "200"
        /\ tasks[t].vibe.replies = <<"result">>

====
